---------------------------- MODULE Spec2Model ----------------------------
(***************************************************************************)
(* A model of the line-delimited task protocol of phase1/Docker:           *)
(*   shared_protocol.py  the codec and the request validation,             *)
(*   orchestrator.py     send_request, route, run_pipeline, dashboard,     *)
(*   agent_server.py     the accept / recv / dispatch loop and the memory  *)
(*                       store.                                            *)
(* JSON values are atoms (TLA+ strings): ordinary strings stand for JSON   *)
(* strings, the atoms of NonStrAtoms for the JSON values that are not      *)
(* strings.  Objects are functions from keys to values.                    *)
(***************************************************************************)
EXTENDS Integers, Sequences, FiniteSets, TLC

VARIABLES
    \* ----- orchestrator.py
    opc,        \* position: "idle", "sending" (in send_request's while loop), "returned"
    args,       \* the running entry point and its arguments
    payload,    \* send_request's payload argument
    attempt,    \* send_request's local attempt
    retries,    \* send_request's argument retries
    backoff,    \* send_request's argument backoff, in tenths of a second
    conns,      \* connections opened by the current send_request call
    closes,     \* of these, the ones the peer closed before any frame
    sleeps,     \* the time.sleep durations of the current send_request call
    got,        \* the frame the current send_request call received, and when
    ret,        \* the value the entry point returned
    TASK_LOG,   \* the module-level task log
    routed,     \* the route calls of the running entry point: <<task_type, data>>
    resps,      \* the responses these route calls returned
    netcalls,   \* connections opened since the entry point was called
    dashboards, \* what dashboard() printed since the entry point was called
    ncalls,     \* entry point calls so far
    \* ----- agent_server.py
    spc,        \* position: "accept" (line 53), "open" (in the connection's loops),
                \* "closing" (line 95)
    wire,       \* bytes the peer has sent on the connection, not yet received
    buffer,     \* start_server's local buffer
    memory,     \* start_server's local memory
    file,       \* the file MEMORY_FILE
    out,        \* the response frames sent on the connection
    last,       \* the frame dispatched last on the connection and what was done for it
    loaded,     \* what load_memory returned at startup
    handled,    \* per task_id, the entry of the latest frame for which handle_task
                \* returned and that was not answered with an error (unless a
                \* sendall failed on the socket)
    nframes,    \* newline-terminated frames the peers have sent so far
    left,       \* how the connection's try block was left: "no", "break" (line 60),
                \* "timeout" (line 90), "error" (line 92)
    done,       \* the lines dispatched on the connection, in order
    pending,    \* connections of the listen queue (line 49), not yet accepted
    nopen,      \* connections accepted and not yet closed
    \* ----- shared_protocol.py
    pcall,      \* the function of shared_protocol.py called last, with its arguments
    pret        \* what that call returned

ovars == <<opc, args, payload, attempt, retries, backoff, conns, closes, sleeps,
           got, ret, TASK_LOG, routed, resps, netcalls, dashboards, ncalls>>

svars == <<spc, wire, buffer, memory, file, out, last, loaded, handled, nframes, left,
           done, pending, nopen>>

pvars == <<pcall, pret>>

vars == <<ovars, svars, pvars>>

-----------------------------------------------------------------------------
(* Values *)

None == "<None>"

EmptyDict == [k \in {} |-> None]

\* dict.get(key) with the default None
Get(d, k) == IF k \in DOMAIN d THEN d[k] ELSE None

-----------------------------------------------------------------------------
(* shared_protocol.py *)

ALLOWED_TASK_TYPES == {"collect", "analyze", "report"}

REQUIRED_FIELDS == {"task_id", "task_type", "data", "auth_token"}

FieldsAsDeclared == <<"task_id", "task_type", "data", "auth_token">>

\* sorted(REQUIRED_FIELDS)
SortedFields == <<"auth_token", "data", "task_id", "task_type">>

\* Values that are not ordinary strings: a number, a non-empty list, and a
\* string holding a lone surrogate (json.loads accepts "\ud800"; utf-8 cannot
\* encode it).
Number == "<7>"
List == "<[1]>"
Surrogate == "<U+D800>"

IsStr(v) == v \notin {None, Number, List}

\* isinstance(v, (str, dict, list))
IsStrDictList(v) == IsStr(v) \/ v = List

\* hash(v) does not raise
Hashable(v) == v # List

\* bool(v)
Truthy(v) == v \notin {"", None}

\* A JSON document: an object with its members, or a value of another type.
Obj(d) == [type |-> "dict", d |-> d]
NonObj == [type |-> "list", d |-> EmptyDict]
Malformed == [type |-> "malformed", d |-> EmptyDict]

make_response(task_id, status, result, error) ==
    [task_id |-> task_id, status |-> status, result |-> result, error |-> error]

\* what decode_message returns for a payload json.loads rejects
DecodeError == [error |-> "decode_error", detail |-> "<detail>"]

\* ",".join(s) for the members of SortedFields from position i that are in s
RECURSIVE JoinSorted(_, _)
JoinSorted(s, i) ==
    IF i > Len(SortedFields) THEN ""
    ELSE IF SortedFields[i] \notin s THEN JoinSorted(s, i + 1)
    ELSE IF \E j \in (i + 1)..Len(SortedFields) : SortedFields[j] \in s
         THEN SortedFields[i] \o "," \o JoinSorted(s, i + 1)
         ELSE SortedFields[i]

\* line 32 with a task_type that cannot be hashed: `in` raises TypeError and
\* validate_request does not return; the exception stands as the reason
TypeError == "<raise TypeError>"

validate_request_any_id(req, expected_task_types) ==
    IF req.type # "dict" THEN <<FALSE, "invalid_format">>
    ELSE LET missing == REQUIRED_FIELDS \ DOMAIN req.d IN
    IF missing # {} THEN <<FALSE, "missing_fields:" \o JoinSorted(missing, 1)>>
    ELSE IF ~Hashable(req.d.task_type) THEN <<FALSE, TypeError>>
    ELSE IF req.d.task_type \notin expected_task_types THEN <<FALSE, "invalid_task_type">>
    ELSE IF ~IsStr(req.d.task_id) THEN <<FALSE, "invalid_task_id">>
    ELSE IF ~IsStrDictList(req.d.data) THEN <<FALSE, "invalid_data">>
    ELSE <<TRUE, "ok">>

\* validate_request(req, expected_task_types) for a set expected_task_types:
\* <<ok, reason>>
validate_request(req, expected_task_types) ==
    IF req.type # "dict" THEN <<FALSE, "invalid_format">>
    ELSE LET missing == REQUIRED_FIELDS \ DOMAIN req.d IN
    IF missing # {} THEN <<FALSE, "missing_fields:" \o JoinSorted(missing, 1)>>
    ELSE IF ~Hashable(req.d.task_type) THEN <<FALSE, TypeError>>
    ELSE IF req.d.task_type \notin expected_task_types THEN <<FALSE, "invalid_task_type">>
    ELSE IF ~IsStr(req.d.task_id) \/ req.d.task_id = "" THEN <<FALSE, "invalid_task_id">>
    ELSE IF ~IsStrDictList(req.d.data) THEN <<FALSE, "invalid_data">>
    ELSE <<TRUE, "ok">>

\* lines 30-31: validate_request without expected_task_types
validate_request_default(req) == validate_request(req, ALLOWED_TASK_TYPES)

AUTH_TOKEN == "change-me"

\* The payloads a peer sends: JSON texts, by what json.loads makes of them.
Req(task_id, task_type, data, auth_token) ==
    Obj([task_id |-> task_id, task_type |-> task_type, data |-> data,
         auth_token |-> auth_token])

Payloads ==
    << Req("t1", "collect", "x", AUTH_TOKEN),
       Req("t1", "collect", "y", AUTH_TOKEN),
       Req("t2", "foo", "x", AUTH_TOKEN),
       Req("t2", "collect", Surrogate, AUTH_TOKEN),
       Req("t1", "collect", "x", "wrong"),
       Req(Surrogate, "collect", "x", "wrong"),
       Malformed,
       NonObj,
       Obj([task_id |-> "t1", task_type |-> "collect"]),
       Req("t1", "", "x", AUTH_TOKEN),
       Req("t1", List, "x", AUTH_TOKEN),
       Req("", "collect", "x", AUTH_TOKEN),
       Req(Number, "collect", "x", AUTH_TOKEN),
       Req("t1", "collect", Number, AUTH_TOKEN) >>

\* Bytes: the newline, and two bytes for the text of each payload.
NL == 0
Text(i) == <<2 * i - 1, 2 * i>>

\* encode_message for the i-th payload: its text and one newline
encode_message(i) == Text(i) \o <<NL>>

\* decode_message(line)
decode_message(line) ==
    IF \E i \in 1..Len(Payloads) : line = Text(i) /\ Payloads[i].type # "malformed"
    THEN Payloads[CHOOSE i \in 1..Len(Payloads) : line = Text(i)]
    ELSE Obj(DecodeError)

\* no function of shared_protocol.py called yet
ProtocolIdle ==
    /\ pcall = [fn |-> "none"]
    /\ pret = None

\* The requests validate_request is called with: objects in which each
\* required field is absent or holds one of a few JSON values.
FieldValues(f) ==
    IF f = "task_id" THEN {"t1", "", Number}
    ELSE IF f = "task_type" THEN {"collect", "foo", "", List}
    ELSE IF f = "data" THEN {"x", List, Number, None}
    ELSE {AUTH_TOKEN, "wrong"}

Requests ==
    UNION {{Obj(d) : d \in {e \in [fs -> UNION {FieldValues(f) : f \in fs}] :
                              \A f \in fs : e[f] \in FieldValues(f)}} :
           fs \in SUBSET REQUIRED_FIELDS}

ExpectedSets == {{}, {"collect"}, {"foo", ""}, ALLOWED_TASK_TYPES}

\* a call validate_request(req, expected_task_types)
CallValidate(req, expected_task_types) ==
    /\ UNCHANGED <<ovars, svars>>
    /\ pcall.fn = "none"
    /\ pcall' = [fn |-> "validate_request", req |-> req, omitted |-> FALSE,
                 expected |-> expected_task_types]
    /\ pret' = validate_request(req, expected_task_types)

\* a call validate_request(req)
CallValidateDefault(req) ==
    /\ UNCHANGED <<ovars, svars>>
    /\ pcall.fn = "none"
    /\ pcall' = [fn |-> "validate_request", req |-> req, omitted |-> TRUE, expected |-> {}]
    /\ pret' = validate_request_default(req)

-----------------------------------------------------------------------------
(* encode_message and decode_message, character by character *)

\* Characters of a str: two letters, the line feed, the quotation mark, the
\* backslash and a lone surrogate.  A str is a sequence of them.
LF == "<LF>"
QUOTE == "<QUOTE>"
BSL == "<BACKSLASH>"
Chars == {"a", "n", LF, QUOTE, BSL, Surrogate}

\* bound of the model: the length of the strs of a request
MaxStrLen == 2

Strs == UNION {[1..n -> Chars] : n \in 0..MaxStrLen}

\* The requests encode_message is called with: valid requests, of which
\* task_id and data are kept (task_type and auth_token are fixed words).
CodecRequests == {[task_id |-> t, data |-> d] : t \in Strs \ {<< >>}, d \in Strs}

\* json.dumps(s, ensure_ascii=False) of the characters of a str
RECURSIVE JsonEscape(_)
JsonEscape(str) ==
    IF str = << >> THEN << >>
    ELSE LET c == Head(str) IN
         (IF c = LF THEN <<BSL, "n">>
          ELSE IF c \in {QUOTE, BSL} THEN <<BSL, c>>
          ELSE <<c>>) \o JsonEscape(Tail(str))

\* json.dumps(payload, ensure_ascii=False): "{" and "," and "}" stand for the
\* punctuation and the keys
json_dumps(r) ==
    <<"{", QUOTE>> \o JsonEscape(r.task_id) \o <<QUOTE, ",", QUOTE>>
        \o JsonEscape(r.data) \o <<QUOTE, "}">>

\* text.encode("utf-8") raises UnicodeEncodeError
Utf8Raises(text) == \E i \in 1..Len(text) : text[i] = Surrogate

\* encode_message(payload): the bytes of a frame, or the exception
encode_message_chars(r) ==
    LET text == json_dumps(r) \o <<LF>> IN
    IF Utf8Raises(text) THEN [raised |-> TRUE, frame |-> << >>]
    ELSE [raised |-> FALSE, frame |-> text]

\* str.strip() for the whitespace of the alphabet
RECURSIVE Strip(_)
Strip(text) ==
    IF text = << >> THEN text
    ELSE IF Head(text) = LF THEN Strip(Tail(text))
    ELSE IF text[Len(text)] = LF THEN Strip(SubSeq(text, 1, Len(text) - 1))
    ELSE text

\* json.loads reading a string literal whose opening quotation mark is before
\* position i: the str read so far is acc
RECURSIVE ReadStr(_, _, _)
ReadStr(text, i, acc) ==
    IF i > Len(text) THEN [ok |-> FALSE, str |-> acc, next |-> i]
    ELSE IF text[i] = QUOTE THEN [ok |-> TRUE, str |-> acc, next |-> i + 1]
    ELSE IF text[i] = LF THEN [ok |-> FALSE, str |-> acc, next |-> i]
    ELSE IF text[i] = BSL
    THEN IF i + 1 > Len(text) THEN [ok |-> FALSE, str |-> acc, next |-> i]
         ELSE IF text[i + 1] \in {QUOTE, BSL} THEN ReadStr(text, i + 2, Append(acc, text[i + 1]))
         ELSE IF text[i + 1] = "n" THEN ReadStr(text, i + 2, Append(acc, LF))
         ELSE [ok |-> FALSE, str |-> acc, next |-> i]
    ELSE ReadStr(text, i + 1, Append(acc, text[i]))

\* json.loads(text): the object, or a failure
json_loads(text) ==
    LET bad == [ok |-> FALSE, obj |-> EmptyDict] IN
    IF Len(text) < 2 \/ text[1] # "{" \/ text[2] # QUOTE THEN bad
    ELSE LET id == ReadStr(text, 3, << >>) IN
    IF ~id.ok \/ id.next + 1 > Len(text) \/ text[id.next] # "," \/ text[id.next + 1] # QUOTE
    THEN bad
    ELSE LET data == ReadStr(text, id.next + 2, << >>) IN
    IF ~data.ok \/ data.next # Len(text) \/ text[data.next] # "}" THEN bad
    ELSE [ok |-> TRUE, obj |-> [task_id |-> id.str, data |-> data.str]]

\* decode_message(line)
decode_message_chars(line) ==
    LET obj == json_loads(Strip(line)) IN
    IF obj.ok THEN obj.obj ELSE DecodeError

\* a call encode_message(r), and decode_message on the frame it returned
CallEncodeDecode(r) ==
    /\ UNCHANGED <<ovars, svars>>
    /\ pcall.fn = "none"
    /\ pcall' = [fn |-> "encode_message", req |-> r]
    /\ LET e == encode_message_chars(r) IN
       pret' = [raised |-> e.raised, frame |-> e.frame,
                decoded |-> IF e.raised THEN EmptyDict ELSE decode_message_chars(e.frame)]

\* the caller takes the return value; another call may follow
ProtocolReturn ==
    /\ UNCHANGED <<ovars, svars>>
    /\ pcall.fn # "none"
    /\ pcall' = [fn |-> "none"]
    /\ pret' = None

-----------------------------------------------------------------------------
(* agent_server.py *)

\* bound of the model: the frames the peers send in a run
MaxFrames == 2

EmptyStore == EmptyDict

\* handle_task of agent_server.py
handle_task(task_type, data) == "agent processed " \o task_type \o " -> " \o data

\* The strings str.encode("utf-8") raises UnicodeEncodeError for.
Unencodable ==
    {Surrogate} \cup {handle_task(tt, Surrogate) : tt \in {"collect", "foo"}}

\* encode_message(resp) does not raise
Encodable(resp) ==
    /\ resp.task_id \notin Unencodable
    /\ resp.result \notin Unencodable
    /\ resp.error \notin Unencodable

\* conn.sendall(encode_message(resp)); io: sendall does not raise
Send(resp, io) ==
    IF ~Encodable(resp) THEN "encode_error"
    ELSE IF ~io THEN "io_error"
    ELSE "sent"

\* The file MEMORY_FILE: missing, holding a store, or not parseable.
MissingFile == [state |-> "missing", store |-> EmptyStore]
CorruptFile == [state |-> "corrupt", store |-> EmptyStore]
StoreFile(mem) == [state |-> "ok", store |-> mem]

load_memory(f) == IF f.state = "ok" THEN f.store ELSE EmptyStore

\* save_memory(mem); how: "ok", or an exception before the file is opened
\* for writing ("unopened"), or after ("truncated")
save_memory(mem, f, how) ==
    IF how = "ok" THEN StoreFile(mem)
    ELSE IF how = "unopened" THEN f
    ELSE CorruptFile

SaveOutcomes == {"ok", "unopened", "truncated"}

SaveFailurePropagates(how) == how # "ok"

\* lines 37-38: save_memory catches every exception of lines 34-36
SaveRaises(how) == FALSE

MemoryEntry(req, result) ==
    [task_type |-> req.d.task_type, data |-> req.d.data, result |-> result]

\* lines 78-82: memory[req["task_id"]] = {...}
MemoryPut(mem, req, result) ==
    [t \in DOMAIN mem \cup {req.d.task_id} |->
        IF t = req.d.task_id THEN MemoryEntry(req, result) ELSE mem[t]]

\* line 66: the expected_task_types argument
ExpectedTaskTypes(req) ==
    LET task_type == Get(req.d, "task_type") IN
    IF Truthy(task_type) THEN {task_type} ELSE {}

\* req.get("task_id", "")
TaskIdOrEmpty(req) == IF "task_id" \in DOMAIN req.d THEN req.d.task_id ELSE ""

\* Lines 65-89 for one decoded frame req, with the store mem and the file f:
\* what is sent, what becomes of the store and the file, and whether an
\* exception leaves the connection's try block (closed).
\*   h:   handle_task returns, or raises (an agent overrides handle_task)
\*   how: the outcome of save_memory
\*   io1, io2: the first and the second sendall do not raise
Handle(req, mem, f, h, how, io1, io2) ==
    LET Outcome(m, fl, sent, closed, handler, iofault) ==
            [mem |-> m, file |-> fl, sent |-> sent, closed |-> closed,
             handler |-> handler, iofault |-> iofault]
        \* a sendall outside the inner try: lines 69 and 73
        Reply(resp) ==
            Outcome(mem, f, IF Send(resp, io1) = "sent" THEN <<resp>> ELSE << >>,
                    Send(resp, io1) # "sent", "none", Send(resp, io1) = "io_error")
        \* the except branch of the inner try: lines 86-89
        ProcessingError(m, fl, handler, iofault) ==
            LET resp == make_response(req.d.task_id, "error", None, "processing_error") IN
            Outcome(m, fl, IF Send(resp, io2) = "sent" THEN <<resp>> ELSE << >>,
                    Send(resp, io2) # "sent", handler,
                    iofault \/ Send(resp, io2) = "io_error")
    IN
    \* line 65: req.get raises AttributeError
    IF req.type # "dict"
    THEN Outcome(mem, f, << >>, TRUE, "none", FALSE)
    \* lines 66 and 31: hashing task_type raises TypeError
    ELSE IF ~Hashable(Get(req.d, "task_type"))
    THEN Outcome(mem, f, << >>, TRUE, "none", FALSE)
    ELSE IF ~validate_request(req, ExpectedTaskTypes(req))[1]
    THEN Reply(make_response(TaskIdOrEmpty(req), "error", None,
                             validate_request(req, ExpectedTaskTypes(req))[2]))
    ELSE IF req.d.auth_token # AUTH_TOKEN
    THEN Reply(make_response(req.d.task_id, "error", None, "unauthorized"))
    ELSE IF h = "raise"
    THEN LET resp == make_response(req.d.task_id, "error", None, "processing_error") IN
         Outcome(mem, f, IF Send(resp, io1) = "sent" THEN <<resp>> ELSE << >>,
                 Send(resp, io1) # "sent", "raised", Send(resp, io1) = "io_error")
    ELSE LET result == handle_task(req.d.task_type, req.d.data)
             m == MemoryPut(mem, req, result)
             fl == save_memory(m, f, how)
             resp == make_response(req.d.task_id, "ok", result, None)
         IN IF SaveRaises(how)
            THEN ProcessingError(m, fl, "returned", FALSE)
            ELSE IF Send(resp, io1) = "sent"
            THEN Outcome(m, fl, <<resp>>, FALSE, "returned", FALSE)
            ELSE ProcessingError(m, fl, "returned", Send(resp, io1) = "io_error")

\* The byte streams a peer sends on one connection: n encoded payloads, and
\* possibly the text of a payload with no newline after it.
RECURSIVE Encoded(_)
Encoded(s) == IF s = << >> THEN << >> ELSE encode_message(Head(s)) \o Encoded(Tail(s))

Streams(n) ==
    {Encoded(s) \o tail : s \in [1..n -> 1..Len(Payloads)], tail \in {<< >>, Text(1)}}

HasNewline(b) == \E i \in 1..Len(b) : b[i] = NL

\* buffer.split(b"\n", 1)
FirstNewline(b) == CHOOSE i \in 1..Len(b) : b[i] = NL /\ \A j \in 1..(i - 1) : b[j] # NL
Line(b) == SubSeq(b, 1, FirstNewline(b) - 1)
Rest(b) == SubSeq(b, FirstNewline(b) + 1, Len(b))

NoDispatch == [n |-> 0]

\* (last.save: the outcome of save_memory for the frame, "none" if not called;
\* last.again: handle_task was called for a task_id it had handled before)

\* the frames sent for one request hold a response with this status
AnsweredWith(sent, status) == \E i \in 1..Len(sent) : sent[i].status = status

\* lines 53-56: accept returns a connection; its peer sends n frames
AcceptReturns(n, stream) ==
    /\ UNCHANGED <<ovars, pvars>>
    /\ spc = "accept"
    /\ nopen' = nopen + 1
    /\ nframes + n <= MaxFrames
    /\ stream \in Streams(n)
    /\ nframes' = nframes + n
    /\ spc' = "open"
    /\ wire' = stream
    /\ buffer' = << >>
    /\ out' = << >>
    /\ last' = NoDispatch
    /\ left' = "no"
    /\ done' = << >>
    /\ UNCHANGED <<memory, file, loaded, handled>>

\* a peer connects while the server waits in accept, and is accepted
Accept(n, stream) ==
    /\ pending = 0
    /\ AcceptReturns(n, stream)
    /\ UNCHANGED pending

\* bounds of the model: the length of the listen queue, and the payloads of
\* the peers that wait in it
MaxPending == 2
ClientPayloads == {1, 2, 8}

ClientStreams(n) == {Encoded(s) : s \in [1..n -> ClientPayloads]}

\* a peer connects, whatever the server is doing: the connection waits in the
\* listen queue
Connect ==
    /\ UNCHANGED <<ovars, pvars>>
    /\ pending < MaxPending
    /\ pending' = pending + 1
    /\ UNCHANGED <<spc, wire, buffer, memory, file, out, last, loaded, handled, nframes,
                   left, done, nopen>>

AcceptQueuedConcurrently(n, stream) ==
    /\ UNCHANGED <<ovars, pvars>>
    /\ spc \in {"accept", "open"}
    /\ pending > 0
    /\ pending' = pending - 1
    /\ nframes + n <= MaxFrames
    /\ nframes' = nframes + n
    /\ nopen' = nopen + 1
    /\ spc' = "open"
    /\ wire' = wire \o stream
    /\ UNCHANGED <<buffer, memory, file, out, last, loaded, handled, left, done>>

\* lines 53-56: accept returns the connection at the head of the listen queue
AcceptQueued(n, stream) ==
    /\ pending > 0
    /\ pending' = pending - 1
    /\ AcceptReturns(n, stream)

\* lines 58-61: recv returns the next n bytes
Recv(n) ==
    /\ UNCHANGED <<ovars, pvars>>
    /\ spc = "open"
    /\ ~HasNewline(buffer)
    /\ n \in 1..Len(wire)
    /\ buffer' = buffer \o SubSeq(wire, 1, n)
    /\ wire' = SubSeq(wire, n + 1, Len(wire))
    /\ UNCHANGED <<spc, memory, file, out, last, loaded, handled, nframes, left, done,
                   pending, nopen>>

\* The connection's try block is left: by break (line 60) or by an exception
\* caught at lines 90-93.
LeaveConnection(how) ==
    /\ spc' = "closing"
    /\ left' = how
    /\ UNCHANGED <<wire, buffer, memory, file, out, last, loaded, handled, nframes, done,
                   pending, nopen>>

\* lines 58-60: recv returns b"", the peer has closed
RecvEOF ==
    /\ UNCHANGED <<ovars, pvars>>
    /\ spc = "open"
    /\ ~HasNewline(buffer)
    /\ wire = << >>
    /\ LeaveConnection("break")

\* lines 58 and 90-91: recv raises socket.timeout, nothing arrived in time
RecvTimesOut ==
    /\ UNCHANGED <<ovars, pvars>>
    /\ spc = "open"
    /\ ~HasNewline(buffer)
    /\ wire = << >>
    /\ LeaveConnection("timeout")

\* lines 58 and 92-93: recv raises another exception (connection reset)
RecvFails ==
    /\ UNCHANGED <<ovars, pvars>>
    /\ spc = "open"
    /\ ~HasNewline(buffer)
    /\ LeaveConnection("error")

\* lines 63-89: one frame is split off the buffer and handled.  When
\* handle_task raises, save_memory is not reached and there is one sendall.
Dispatch(h, how, io1, io2) ==
    /\ UNCHANGED <<ovars, pvars>>
    /\ spc = "open"
    /\ HasNewline(buffer)
    /\ h = "raise" => (how = "ok" /\ io2)
    /\ LET req == decode_message(Line(buffer))
           r == Handle(req, memory, file, h, how, io1, io2)
       IN /\ memory' = r.mem
          /\ file' = r.file
          /\ out' = out \o r.sent
          /\ last' = [n |-> 1, req |-> req, sent |-> r.sent, closed |-> r.closed,
                      handler |-> r.handler, iofault |-> r.iofault,
                      save |-> IF r.handler = "returned" THEN how ELSE "none",
                      again |-> r.handler # "none" /\ req.d.task_id \in DOMAIN handled,
                      memChanged |-> r.mem # memory, fileChanged |-> r.file # file]
          /\ handled' = IF r.handler = "returned" /\ (r.iofault \/ ~AnsweredWith(r.sent, "error"))
                        THEN [t \in DOMAIN handled \cup {req.d.task_id} |->
                                IF t = req.d.task_id
                                THEN [task_type |-> req.d.task_type, data |-> req.d.data,
                                      result |-> handle_task(req.d.task_type, req.d.data)]
                                ELSE handled[t]]
                        ELSE handled
          /\ spc' = IF r.closed THEN "closing" ELSE "open"
          /\ left' = IF r.closed THEN "error" ELSE left
          /\ done' = Append(done, Line(buffer))
          /\ buffer' = Rest(buffer)
    /\ UNCHANGED <<wire, loaded, nframes, pending, nopen>>

CloseTerminates ==
    /\ UNCHANGED <<ovars, pvars>>
    /\ spc = "closing"
    /\ spc' = "off"
    /\ UNCHANGED <<wire, buffer, memory, file, out, last, loaded, handled, nframes, left,
                   done, pending, nopen>>

\* lines 94-95: conn.close(), and the accept loop goes round
Close ==
    /\ UNCHANGED <<ovars, pvars>>
    /\ spc = "closing"
    /\ spc' = "accept"
    /\ wire' = << >>
    /\ buffer' = << >>
    /\ out' = << >>
    /\ last' = NoDispatch
    /\ left' = "no"
    /\ done' = << >>
    /\ nopen' = nopen - 1
    /\ UNCHANGED <<memory, file, loaded, handled, nframes, pending>>

\* The state of MEMORY_FILE when the server starts.
InitialFiles ==
    {MissingFile, CorruptFile,
     StoreFile([t \in {"t1"} |->
                  [task_type |-> "collect", data |-> "old",
                   result |-> handle_task("collect", "old")]])}

ServerOff ==
    /\ spc = "off"
    /\ wire = << >>
    /\ buffer = << >>
    /\ memory = EmptyStore
    /\ file = MissingFile
    /\ out = << >>
    /\ last = NoDispatch
    /\ loaded = EmptyStore
    /\ handled = EmptyDict
    /\ nframes = 0
    /\ left = "no"
    /\ done = << >>
    /\ pending = 0
    /\ nopen = 0

-----------------------------------------------------------------------------
(* orchestrator.py *)

ROUTES == {"collect", "analyze", "report"}

\* send_request's defaults: retries, and backoff in tenths of a second
DefaultRetries == 3
DefaultBackoff == 5

\* bounds of the model
MaxRetries == 3
MaxCloses == 2
MaxCalls == 2

TaskIds == {"t1", "t2"}
UserTexts == {"hello"}
Results == {"ra", "rb"}
TaskTypes == ROUTES \cup {"foo"}
Backoffs == {1, DefaultBackoff}

NoCall == [fn |-> "none"]
NoFrame == [n |-> 0]

\* The frames a peer answers a request with: the agent server's responses
\* (agent_server.py builds each with make_response) and a frame that does
\* not decode.
PeerResponses(tid) ==
    {make_response(tid, "ok", r, None) : r \in Results}
      \cup {make_response(tid, "error", None, e) :
              e \in {"unauthorized", "processing_error"}}
      \cup {DecodeError}

\* line 45
NetworkFailure(p) ==
    [task_id |-> Get(p, "task_id"), status |-> "error", error |-> "network_failure"]

RECURSIVE Pow2(_)
Pow2(n) == IF n = 0 THEN 1 ELSE 2 * Pow2(n - 1)

BackoffSleepLinear(b, a) == b * (a + 1)

\* line 43: the argument of time.sleep
BackoffSleep(b, a) == b * Pow2(a)

RoutableAny(task_type) == TRUE

\* line 48
Routable(task_type) == task_type \in ROUTES

RoutePayload(task_id, task_type, data) ==
    [task_id |-> task_id, task_type |-> task_type, data |-> data,
     auth_token |-> AUTH_TOKEN]

LogEntry(task_type, resp) == [step |-> task_type, response |-> resp]

LogPutIfAbsent(log, task_id, entry) ==
    [t \in DOMAIN log \cup {task_id} |-> IF t \in DOMAIN log THEN log[t] ELSE entry]

\* TASK_LOG[task_id] = entry
LogPut(log, task_id, entry) ==
    [t \in DOMAIN log \cup {task_id} |-> IF t = task_id THEN entry ELSE log[t]]

\* dashboard(): one line per entry of the task log
dashboard(log) ==
    {<<tid, log[tid].step, Get(log[tid].response, "status")>> : tid \in DOMAIN log}

PipelineContinuesAlways(step, resp) == step # "report"

\* lines 66 and 69: run_pipeline goes on to the next stage
PipelineContinues(step, resp) == step # "report" /\ Get(resp, "status") = "ok"

\* lines 68 and 71: the stage after step
NextStage(step) == IF step = "collect" THEN "analyze" ELSE "report"

NextDataSame(resp, data) == data

\* lines 68 and 71: the data of the next stage
NextData(resp, data) == Get(resp, "result")

DashboardOnEveryReturn(step) == TRUE

\* lines 71-72: dashboard() follows the report stage's route call only
DashboardAfter(step) == step = "report"

\* send_request is entered: lines 26-27
EnterSendRequest(p, r, b) ==
    /\ opc' = "sending"
    /\ payload' = p
    /\ attempt' = 0
    /\ retries' = r
    /\ backoff' = b
    /\ conns' = 0
    /\ closes' = 0
    /\ sleeps' = << >>
    /\ got' = NoFrame

\* route's lines 50-52 for a task_type of the routing table
EnterRoute(task_id, task_type, data) ==
    /\ routed' = Append(routed, <<task_type, data>>)
    /\ EnterSendRequest(RoutePayload(task_id, task_type, data),
                        DefaultRetries, DefaultBackoff)

\* What follows the return of send_request with resp, up to the next
\* send_request or to the return of the entry point; c and g are conns and
\* got at the return.
\*   send_request called directly: the call returns resp.
\*   route: line 53 logs, line 54 returns.
\*   run_pipeline: route logs and returns, then lines 66-73.
AfterSendRequest(resp, c, g) ==
    LET step == payload.task_type
        tid == payload.task_id
        log == LogPut(TASK_LOG, tid, LogEntry(step, resp))
        Finish(d) == /\ opc' = "returned"
                     /\ ret' = resp
                     /\ dashboards' = IF d THEN Append(dashboards, dashboard(log))
                                           ELSE dashboards
                     /\ conns' = c
                     /\ got' = g
                     /\ UNCHANGED <<payload, attempt, retries, backoff,
                                    closes, sleeps, routed>>
    IN
    IF args.fn = "send_request"
    THEN /\ Finish(FALSE)
         /\ UNCHANGED <<TASK_LOG, resps>>
    ELSE /\ TASK_LOG' = log
         /\ resps' = Append(resps, resp)
         /\ IF args.fn = "route"
            THEN Finish(FALSE)
            ELSE IF PipelineContinues(step, resp)
            THEN /\ EnterRoute(tid, NextStage(step), NextData(resp, payload.data))
                 /\ UNCHANGED <<ret, dashboards>>
            ELSE Finish(DashboardAfter(step))

\* A top-level call of send_request(host, port, payload, retries, backoff).
CallSendRequest(tid, r, b) ==
    /\ UNCHANGED <<svars, pvars>>
    /\ opc = "idle"
    /\ args' = [fn |-> "send_request", task_id |-> tid]
    /\ EnterSendRequest(RoutePayload(tid, "collect", "hello"), r, b)
    /\ UNCHANGED <<ret, TASK_LOG, routed, resps, netcalls, dashboards, ncalls>>

\* A top-level call of route(task_id, task_type, data).
CallRoute(tid, tt, data) ==
    /\ UNCHANGED <<svars, pvars>>
    /\ opc = "idle"
    /\ args' = [fn |-> "route", task_id |-> tid, task_type |-> tt, data |-> data]
    /\ IF ~Routable(tt)
       THEN /\ opc' = "returned"
            /\ ret' = make_response(tid, "error", None, "route_not_found")
            /\ UNCHANGED <<payload, attempt, retries, backoff, conns, closes,
                           sleeps, got, routed>>
       ELSE /\ EnterRoute(tid, tt, data)
            /\ UNCHANGED ret
    /\ UNCHANGED <<TASK_LOG, resps, netcalls, dashboards, ncalls>>

\* A top-level call of run_pipeline(task_id, user_text): line 65 calls route.
CallRunPipeline(tid, text) ==
    /\ UNCHANGED <<svars, pvars>>
    /\ opc = "idle"
    /\ args' = [fn |-> "run_pipeline", task_id |-> tid, user_text |-> text]
    /\ EnterRoute(tid, "collect", text)
    /\ UNCHANGED <<ret, TASK_LOG, resps, netcalls, dashboards, ncalls>>

\* One iteration of the while loop in which create_connection, sendall or recv
\* raises: lines 41-44.
AttemptRaises ==
    /\ UNCHANGED <<svars, pvars>>
    /\ opc = "sending"
    /\ attempt < retries
    /\ conns' = conns + 1
    /\ netcalls' = netcalls + 1
    /\ sleeps' = Append(sleeps, BackoffSleep(backoff, attempt))
    /\ attempt' = attempt + 1
    /\ UNCHANGED <<opc, args, payload, retries, backoff, closes, got, ret,
                   TASK_LOG, routed, resps, dashboards, ncalls>>

\* One iteration in which recv returns b"" before data holds a newline:
\* line 35 leaves the inner loop, the with block ends and the while loop
\* goes round with attempt as it was.
AttemptPeerCloses ==
    /\ UNCHANGED <<svars, pvars>>
    /\ opc = "sending"
    /\ attempt < retries
    /\ closes < MaxCloses
    /\ conns' = conns + 1
    /\ netcalls' = netcalls + 1
    /\ closes' = closes + 1
    /\ UNCHANGED <<opc, args, payload, attempt, retries, backoff, sleeps, got,
                   ret, TASK_LOG, routed, resps, dashboards, ncalls>>

\* The mutant of AttemptGetsFrame: the frame is read and the loop goes on as
\* after a failed attempt.
AttemptGetsFrameAndRetries(resp) ==
    /\ UNCHANGED <<svars, pvars>>
    /\ opc = "sending"
    /\ attempt < retries
    /\ conns' = conns + 1
    /\ netcalls' = netcalls + 1
    /\ got' = [n |-> conns + 1, resp |-> resp, sleeps |-> sleeps]
    /\ sleeps' = Append(sleeps, BackoffSleep(backoff, attempt))
    /\ attempt' = attempt + 1
    /\ UNCHANGED <<opc, args, payload, retries, backoff, closes, ret,
                   TASK_LOG, routed, resps, dashboards, ncalls>>

\* One iteration in which data comes to hold a newline: lines 37-40 return the
\* decoded first line.
AttemptGetsFrame(resp) ==
    /\ UNCHANGED <<svars, pvars>>
    /\ opc = "sending"
    /\ attempt < retries
    /\ netcalls' = netcalls + 1
    /\ AfterSendRequest(resp, conns + 1,
                        [n |-> conns + 1, resp |-> resp, sleeps |-> sleeps])
    /\ UNCHANGED <<args, ncalls>>

\* The while condition fails: line 45.
SendRequestExhausted ==
    /\ UNCHANGED <<svars, pvars>>
    /\ opc = "sending"
    /\ attempt >= retries
    /\ AfterSendRequest(NetworkFailure(payload), conns, got)
    /\ UNCHANGED <<args, netcalls, ncalls>>

\* The entry point has returned; the process may call another one.  The task
\* log is module state and stays.
NextCall ==
    /\ UNCHANGED <<svars, pvars>>
    /\ opc = "returned"
    /\ ncalls < MaxCalls
    /\ opc' = "idle"
    /\ ncalls' = ncalls + 1
    /\ args' = NoCall
    /\ payload' = EmptyDict
    /\ attempt' = 0
    /\ retries' = 0
    /\ backoff' = 0
    /\ conns' = 0
    /\ closes' = 0
    /\ sleeps' = << >>
    /\ got' = NoFrame
    /\ ret' = EmptyDict
    /\ routed' = << >>
    /\ resps' = << >>
    /\ netcalls' = 0
    /\ dashboards' = << >>
    /\ UNCHANGED TASK_LOG

\* the orchestrator before any call
OrchIdle ==
    /\ opc = "idle"
    /\ args = NoCall
    /\ payload = EmptyDict
    /\ attempt = 0
    /\ retries = 0
    /\ backoff = 0
    /\ conns = 0
    /\ closes = 0
    /\ sleeps = << >>
    /\ got = NoFrame
    /\ ret = EmptyDict
    /\ TASK_LOG = EmptyDict
    /\ routed = << >>
    /\ resps = << >>
    /\ netcalls = 0
    /\ dashboards = << >>
    /\ ncalls = 1

OrchNext ==
    \/ \E tid \in TaskIds, r \in 0..MaxRetries, b \in Backoffs : CallSendRequest(tid, r, b)
    \/ \E tid \in TaskIds, tt \in TaskTypes, d \in UserTexts : CallRoute(tid, tt, d)
    \/ \E tid \in TaskIds, text \in UserTexts : CallRunPipeline(tid, text)
    \/ AttemptRaises
    \/ AttemptPeerCloses
    \/ \E resp \in PeerResponses(Get(payload, "task_id")) : AttemptGetsFrame(resp)
    \/ SendRequestExhausted
    \/ NextCall

OrchInit == OrchIdle /\ ServerOff /\ ProtocolIdle

Spec == OrchInit /\ [][OrchNext]_vars

-----------------------------------------------------------------------------
(* The agent server on its own: peers connect and send byte streams. *)

\* lines 45-50: the store is loaded and the socket listens
ServerInit ==
    /\ OrchIdle
    /\ ProtocolIdle
    /\ file \in InitialFiles
    /\ memory = load_memory(file)
    /\ loaded = load_memory(file)
    /\ handled = EmptyDict
    /\ spc = "accept"
    /\ wire = << >>
    /\ buffer = << >>
    /\ out = << >>
    /\ last = NoDispatch
    /\ nframes = 0
    /\ left = "no"
    /\ done = << >>
    /\ pending = 0
    /\ nopen = 0

ServerNext ==
    \/ \E n \in 0..MaxFrames : \E stream \in Streams(n) : Accept(n, stream)
    \/ \E n \in 1..Len(wire) : Recv(n)
    \/ RecvEOF
    \/ RecvTimesOut
    \/ RecvFails
    \/ \E h \in {"return", "raise"}, how \in SaveOutcomes, io1, io2 \in BOOLEAN :
          Dispatch(h, how, io1, io2)
    \/ Close

SpecServer == ServerInit /\ [][ServerNext]_vars

\* The server is one sequential process: once the connection's try block is
\* left, the finally clause runs and the loop is back at accept.
SpecServerFair == SpecServer /\ WF_vars(Close)

-----------------------------------------------------------------------------
(* The agent server with peers that connect at any time *)

ClientsNext ==
    \/ Connect
    \/ \E n \in 0..MaxFrames : \E stream \in ClientStreams(n) : AcceptQueued(n, stream)
    \/ \E n \in 1..Len(wire) : Recv(n)
    \/ RecvEOF
    \/ RecvTimesOut
    \/ RecvFails
    \/ \E h \in {"return", "raise"}, how \in SaveOutcomes, io1, io2 \in BOOLEAN :
          Dispatch(h, how, io1, io2)
    \/ Close

SpecClients == ServerInit /\ [][ClientsNext]_vars

-----------------------------------------------------------------------------
(* The orchestrator's route against the agent server *)

\* the payload's place among the payloads of the wire
PayloadIndex(p) == CHOOSE i \in 1..Len(Payloads) : Payloads[i] = Obj(p)

\* send_request waits in recv (line 33) and the server has accepted its
\* connection: the connections are accepted in the order they were made
CurrentAccepted == opc = "receiving" /\ pending = 0

\* lines 29-31: create_connection and sendall succeed; the connection waits in
\* the server's listen queue with the frame
SysConnectSend ==
    /\ opc = "sending"
    /\ attempt < retries
    /\ pending < MaxPending
    /\ opc' = "receiving"
    /\ pending' = pending + 1
    /\ UNCHANGED <<args, payload, attempt, retries, backoff, conns, closes, sleeps, got,
                   ret, TASK_LOG, routed, resps, netcalls, dashboards, ncalls>>
    /\ UNCHANGED <<spc, wire, buffer, memory, file, out, last, loaded, handled, nframes,
                   left, done, nopen>>
    /\ UNCHANGED pvars

\* line 53 of agent_server.py: the server accepts the connection at the head
\* of the queue, which carries the frame of the payload
SysAccept == AcceptQueued(1, encode_message(PayloadIndex(payload)))

\* lines 33-40: recv returns the server's response frame, which is decoded
\* and returned
SysRecvFrame ==
    /\ UNCHANGED <<svars, pvars>>
    /\ CurrentAccepted
    /\ nopen = 1
    /\ out # << >>
    /\ netcalls' = netcalls + 1
    /\ AfterSendRequest(out[1], conns + 1,
                        [n |-> conns + 1, resp |-> out[1], sleeps |-> sleeps])
    /\ UNCHANGED <<args, ncalls>>

\* lines 33 and 41-44: recv raises (the 3 s timeout, a reset) whatever the
\* server has done with the request
SysRecvRaises ==
    /\ UNCHANGED <<svars, pvars>>
    /\ opc = "receiving"
    /\ opc' = "sending"
    /\ conns' = conns + 1
    /\ netcalls' = netcalls + 1
    /\ sleeps' = Append(sleeps, BackoffSleep(backoff, attempt))
    /\ attempt' = attempt + 1
    /\ UNCHANGED <<args, payload, retries, backoff, closes, got, ret,
                   TASK_LOG, routed, resps, dashboards, ncalls>>

\* lines 33-36: recv returns b"", the server has closed the connection
\* without a frame
SysPeerCloses ==
    /\ UNCHANGED <<svars, pvars>>
    /\ CurrentAccepted
    /\ nopen = 0
    /\ closes < MaxCloses
    /\ opc' = "sending"
    /\ conns' = conns + 1
    /\ netcalls' = netcalls + 1
    /\ closes' = closes + 1
    /\ UNCHANGED <<args, payload, attempt, retries, backoff, sleeps, got,
                   ret, TASK_LOG, routed, resps, dashboards, ncalls>>

\* lines 94-95 of agent_server.py; a peer that waits in recv sees the bytes
\* sent before it sees the connection closed
SysClose ==
    /\ ~(CurrentAccepted /\ out # << >>)
    /\ Close

SystemNext ==
    \/ \E d \in {"x", "y"} : CallRoute("t1", "collect", d)
    \/ SysConnectSend
    \/ AttemptRaises
    \/ SysRecvFrame
    \/ SysRecvRaises
    \/ SysPeerCloses
    \/ SendRequestExhausted
    \/ SysAccept
    \/ \E n \in 1..Len(wire) : Recv(n)
    \/ RecvEOF
    \/ RecvTimesOut
    \/ RecvFails
    \/ \E h \in {"return", "raise"}, how \in SaveOutcomes, io1, io2 \in BOOLEAN :
          Dispatch(h, how, io1, io2)
    \/ SysClose

SpecSystem == ServerInit /\ [][SystemNext]_vars

-----------------------------------------------------------------------------
(* The functions of shared_protocol.py on their own *)

ProtocolInit == OrchIdle /\ ServerOff /\ ProtocolIdle

ProtocolNext ==
    \/ \E req \in Requests, E \in ExpectedSets : CallValidate(req, E)
    \/ \E req \in Requests : CallValidateDefault(req)
    \/ \E r \in CodecRequests : CallEncodeDecode(r)
    \/ ProtocolReturn

SpecProtocol == ProtocolInit /\ [][ProtocolNext]_vars

-----------------------------------------------------------------------------
(* The orchestrator's properties *)

Stages == <<"collect", "analyze", "report">>

\* C1: send_request makes at most `retries` connection attempts, and every
\* attempt that ended without a frame (the peer closed the connection before
\* any newline) has advanced the attempt counter like a failed attempt.
C1_AtMostRetriesAttempts ==
    args.fn # "none" =>
        /\ conns <= retries
        /\ attempt = conns - (IF got = NoFrame THEN 0 ELSE 1)

\* a send_request call with retries = 3 in which every attempt raised
AllThreeAttemptsRaised ==
    /\ opc = "returned"
    /\ retries = 3
    /\ closes = 0
    /\ ret = NetworkFailure(payload)

\* C2 as stated: with retries = 3 and every attempt raising, 3 connections
\* are opened and there are two sleeps, backoff * 2^0 and backoff * 2^1, none
\* after the last failed attempt.
C2_TwoSleepsBetweenAttempts ==
    AllThreeAttemptsRaised =>
        /\ conns = 3
        /\ sleeps = <<backoff, backoff * 2>>

\* C2 as amended: with retries = 3 and every attempt raising, 3 connections
\* are opened and a sleep follows every failed attempt, the last one
\* included: backoff * 2^0, backoff * 2^1, backoff * 2^2.
C2_SleepAfterEveryFailure ==
    AllThreeAttemptsRaised =>
        /\ conns = 3
        /\ sleeps = <<backoff, backoff * 2, backoff * 4>>

C2_Witness == AllThreeAttemptsRaised /\ args.fn = "send_request" /\ backoff = 1

\* C3: network_failure is returned only when `retries` attempts have failed
\* and no frame was received; a received frame is returned at once: the call
\* has returned it, with no connection and no sleep after the one that
\* received it.
C3_FrameReturnedAtOnce ==
    /\ (opc = "returned" /\ ret = NetworkFailure(payload)) =>
           /\ got = NoFrame
           /\ attempt = retries
           /\ Len(sleeps) = retries
    /\ got # NoFrame =>
           /\ opc = "returned"
           /\ ret = got.resp
           /\ conns = got.n
           /\ sleeps = got.sleeps
           /\ attempt < retries

C3_Witness ==
    /\ got # NoFrame
    /\ args.fn = "send_request"
    /\ attempt = 2
    /\ closes = 1

\* C4: run_pipeline routes collect, analyze, report in this order, collect
\* with the user text, each later stage with the result of the stage before,
\* and only after every earlier response had status "ok"; it returns the
\* response of the last stage it routed, which is the first one whose status
\* is not "ok" when fewer than three stages were routed.
C4_PipelineOrder ==
    args.fn = "run_pipeline" =>
        /\ Len(routed) \in 1..3
        /\ \A i \in 1..Len(routed) : routed[i][1] = Stages[i]
        /\ routed[1][2] = args.user_text
        /\ \A i \in 2..Len(routed) :
              /\ Get(resps[i - 1], "status") = "ok"
              /\ routed[i][2] = Get(resps[i - 1], "result")
        /\ opc = "sending" => Len(resps) = Len(routed) - 1
        /\ opc = "returned" =>
              /\ Len(resps) = Len(routed)
              /\ ret = resps[Len(resps)]
              /\ Len(routed) < 3 => Get(ret, "status") # "ok"

C4_Witness ==
    /\ args.fn = "run_pipeline"
    /\ opc = "returned"
    /\ Len(routed) = 2
    /\ Get(resps[1], "result") = "rb"
    /\ Get(ret, "status") = "error"

\* C5: in a run_pipeline execution the dashboard has been rendered once when
\* the report stage's route call was made and has returned, and not at all in
\* every other state; what it rendered is the task log with the report
\* stage's entry.
C5_DashboardOnce ==
    args.fn = "run_pipeline" =>
        /\ Len(dashboards) = (IF opc = "returned" /\ Len(routed) = 3 THEN 1 ELSE 0)
        /\ Len(dashboards) = 1 =>
              /\ dashboards[1] = dashboard(TASK_LOG)
              /\ <<args.task_id, "report", Get(ret, "status")>> \in dashboards[1]

C5_Witness ==
    /\ args.fn = "run_pipeline"
    /\ Len(dashboards) = 1
    /\ Get(ret, "status") # "ok"

\* C6: route with a task_type outside the routing table has returned
\* route_not_found with the caller's task_id, and no connection was opened.
C6_RouteNotFound ==
    (args.fn = "route" /\ args.task_type \notin ROUTES) =>
        /\ opc = "returned"
        /\ ret = make_response(args.task_id, "error", None, "route_not_found")
        /\ netcalls = 0
        /\ routed = << >>

C6_Witness ==
    /\ args.fn = "route"
    /\ args.task_type = "foo"
    /\ args.task_id = "t2"
    /\ opc = "returned"

-----------------------------------------------------------------------------
(* The agent server's properties *)

\* The frame dispatched last was refused before the auth check: it is not a
\* JSON object, or its task_type cannot be a member of a set, or
\* validate_request refuses it.
LastFrameRejected ==
    /\ last.n = 1
    /\ \/ last.req.type # "dict"
       \/ ~Hashable(Get(last.req.d, "task_type"))
       \/ ~validate_request(last.req, ExpectedTaskTypes(last.req))[1]

\* C7: a complete frame that fails decoding or validation is answered with
\* exactly one response {status: "error", error: <reason>} carrying the
\* request's task_id, or "" when it has none, and the connection stays open for
\* the frames that follow (sendall itself not failing).
C7_RejectedFrameAnswered ==
    (LastFrameRejected /\ ~last.iofault) =>
        /\ Len(last.sent) = 1
        /\ last.sent[1].status = "error"
        /\ last.sent[1].error \notin {None, "unauthorized", "processing_error"}
        /\ last.sent[1].task_id = TaskIdOrEmpty(last.req)
        /\ ~last.closed

\* The frame dispatched last passed validate_request and carries an
\* auth_token other than AUTH_TOKEN.
LastFrameUnauthorized ==
    /\ last.n = 1
    /\ last.req.type = "dict"
    /\ Hashable(Get(last.req.d, "task_type"))
    /\ validate_request(last.req, ExpectedTaskTypes(last.req))[1]
    /\ last.req.d.auth_token # AUTH_TOKEN

\* C8: a valid request with a wrong auth_token is answered with
\* {task_id, status: "error", error: "unauthorized"}, handle_task is not
\* called for it, the store and its file are unchanged, and the connection
\* stays open for the next frame (sendall itself not failing).
C8_UnauthorizedAnswered ==
    (LastFrameUnauthorized /\ ~last.iofault) =>
        /\ last.sent = <<make_response(last.req.d.task_id, "error", None, "unauthorized")>>
        /\ last.handler = "none"
        /\ ~last.memChanged
        /\ ~last.fileChanged
        /\ ~last.closed

\* C9: the store holds exactly one entry for each task_id loaded at startup
\* or handled successfully since (handle_task returned and the frame was not
\* answered with an error, socket faults aside), and the entry of a handled task_id is
\* {task_type, data, result} of its latest successful handling.
C9_EntriesAreSuccessfulHandlings ==
    memory = [t \in DOMAIN loaded \cup DOMAIN handled |->
                IF t \in DOMAIN handled THEN handled[t] ELSE loaded[t]]

\* C10: a frame answered with status "error" leaves the store in memory and
\* the file as they were before the frame (sendall itself not failing).
C10_ErrorFramesLeaveStore ==
    (last.n = 1 /\ AnsweredWith(last.sent, "error") /\ ~last.iofault) =>
        (~last.memChanged /\ ~last.fileChanged)

\* C11: an authorized, valid request whose handle_task raises is answered with
\* the one response {task_id, status: "error", error: "processing_error"},
\* which carries nothing of the exception, and the connection stays open; and a
\* processing_error response is sent only for a request whose handle_task
\* raised (sendall itself not failing).
C11_ProcessingErrorIffHandlerFailed ==
    (last.n = 1 /\ ~last.iofault) =>
        /\ last.handler = "raised" =>
              /\ last.sent = <<make_response(last.req.d.task_id, "error", None,
                                             "processing_error")>>
              /\ ~last.closed
        /\ (\E i \in 1..Len(last.sent) : last.sent[i].error = "processing_error") =>
              last.handler = "raised"

\* the faults of a connection: the idle-read timeout and every other exception
ConnectionFaults == {"timeout", "error"}

\* C12: a timeout or another exception on a connection leads to closing that
\* connection; the store and the file are left as they were, or as the request
\* being handled had written them before the fault; and the server is
\* eventually back at accept.
C12_FaultEndsOnlyTheConnection ==
    /\ [][(left = "no" /\ left' \in ConnectionFaults) =>
             /\ spc' = "closing"
             /\ loaded' = loaded
             /\ \/ memory' = memory /\ file' = file
                \/ last' # last /\ last'.handler = "returned"]_vars
    /\ (left \in ConnectionFaults) ~> (spc = "accept" /\ left = "no")

\* a connection that timed out after a task was stored
C12_Witness ==
    /\ spc = "closing"
    /\ left = "timeout"
    /\ DOMAIN handled # {}
    /\ memory # loaded

-----------------------------------------------------------------------------
(* The orchestrator's task log *)

\* C13 as stated: when a route call has returned, the task log's entry for
\* its task_id is {step: task_type, response: <what the call returned>},
\* whatever the task_type.
C13_EveryRouteCallLogged ==
    (args.fn = "route" /\ opc = "returned") =>
        /\ args.task_id \in DOMAIN TASK_LOG
        /\ TASK_LOG[args.task_id] = LogEntry(args.task_type, ret)

\* C13: after every return of send_request to route (route called directly or
\* by run_pipeline), the task log's entry for the task_id is the step and the
\* response of that route call; a step changes no entry of another id, and a
\* route call for a task_type outside the routing table changes no entry.
C13_LogHoldsLastRoutedCall ==
    /\ []((args.fn \in {"route", "run_pipeline"} /\ resps # << >>) =>
            /\ args.task_id \in DOMAIN TASK_LOG
            /\ TASK_LOG[args.task_id] =
                  LogEntry(routed[Len(resps)][1], resps[Len(resps)]))
    /\ [][/\ \A t \in DOMAIN TASK_LOG :
                t # Get(args', "task_id") =>
                    t \in DOMAIN TASK_LOG' /\ TASK_LOG'[t] = TASK_LOG[t]
          /\ (args'.fn = "route" /\ ~Routable(args'.task_type)) =>
                TASK_LOG' = TASK_LOG]_vars

\* a pipeline whose analyze stage has overwritten the entry of its collect stage
C13_Witness ==
    /\ args.fn = "run_pipeline"
    /\ Len(resps) = 2
    /\ TASK_LOG[args.task_id].step = "analyze"
    /\ resps[1] # resps[2]

-----------------------------------------------------------------------------
(* Faults of the memory file *)

\* C14: for the complete frame at the head of the buffer, whatever the socket
\* does, a failing save_memory gives the same responses, the same store in
\* memory and the same continuation as a successful one; after a request whose
\* save failed the store holds the request's entry; and a server started on a
\* missing or unreadable file has started, with the empty store.
C14_StoreFaultsDegrade ==
    /\ (spc = "open" /\ HasNewline(buffer)) =>
          LET req == decode_message(Line(buffer)) IN
          \A how \in SaveOutcomes \ {"ok"}, io1, io2 \in BOOLEAN :
             LET failed == Handle(req, memory, file, "return", how, io1, io2)
                 saved == Handle(req, memory, file, "return", "ok", io1, io2)
             IN /\ failed.sent = saved.sent
                /\ failed.mem = saved.mem
                /\ failed.closed = saved.closed
    /\ (last.n = 1 /\ last.save \in SaveOutcomes \ {"ok"}) =>
          /\ last.req.d.task_id \in DOMAIN memory
          /\ memory[last.req.d.task_id] =
                MemoryEntry(last.req, handle_task(last.req.d.task_type, last.req.d.data))
          /\ (~last.iofault /\ Encodable(make_response(None, "ok", memory[last.req.d.task_id].result, None)))
                => last.sent = <<make_response(last.req.d.task_id, "ok",
                                               memory[last.req.d.task_id].result, None)>>
    /\ (nframes = 0 /\ file.state # "ok") => (spc # "off" /\ loaded = EmptyStore /\ memory = EmptyStore)

\* a task answered ok and kept in memory while the file could not be written
C14_Witness ==
    /\ last.n = 1
    /\ last.save = "truncated"
    /\ AnsweredWith(last.sent, "ok")
    /\ last.req.d.task_id \in DOMAIN memory
    /\ file = CorruptFile
    /\ loaded = EmptyStore

-----------------------------------------------------------------------------
(* validate_request *)

\* the request of the call has all four required fields
HasAllFields == REQUIRED_FIELDS \subseteq DOMAIN pcall.req.d

\* the expected set of the call: ALLOWED_TASK_TYPES' members when omitted
ExpectedOfCall ==
    IF pcall.omitted THEN {"collect", "analyze", "report"} ELSE pcall.expected

\* C15: for a request object with all four required fields, validate_request
\* returns (True, "ok") exactly when task_type is in the expected set (the
\* three stages when the argument is omitted), task_id is a non-empty str and
\* data is a str, dict or list.
C15_AcceptsIff ==
    (pcall.fn = "validate_request" /\ HasAllFields) =>
        LET d == pcall.req.d IN
        (pret = <<TRUE, "ok">>) <=>
            /\ d.task_type \in ExpectedOfCall
            /\ d.task_id \notin {"", Number, List, None}
            /\ d.data \notin {Number, None}

\* an accepted request whose task_type is outside the three stages, and a
\* refused one with the stage collect
C15_Witness ==
    /\ pcall.fn = "validate_request"
    /\ HasAllFields
    /\ pret = <<TRUE, "ok">>
    /\ pcall.req.d.task_type = "foo"
    /\ pcall.req.d.data = List

\* the required fields the request of the call lacks, in sorted order
MissingOfCall ==
    SelectSeq(<<"auth_token", "data", "task_id", "task_type">>,
              LAMBDA f : f \notin DOMAIN pcall.req.d)

RECURSIVE CommaJoined(_)
CommaJoined(fs) ==
    IF Len(fs) = 1 THEN fs[1] ELSE fs[1] \o "," \o CommaJoined(Tail(fs))

\* C16: for a request object lacking at least one required field,
\* validate_request returns (False, "missing_fields:<m>") with <m> the missing
\* fields, sorted and joined by commas, whatever the values of the fields
\* that are present.
C16_MissingFieldsFirst ==
    (pcall.fn = "validate_request" /\ ~HasAllFields) =>
        pret = <<FALSE, "missing_fields:" \o CommaJoined(MissingOfCall)>>

\* a request lacking two fields whose task_type and task_id are invalid too
C16_Witness ==
    /\ pcall.fn = "validate_request"
    /\ DOMAIN pcall.req.d = {"task_id", "task_type"}
    /\ pcall.req.d.task_type = ""
    /\ pcall.req.d.task_id = Number
    /\ pcall.expected = {"collect"}
    /\ pret = <<FALSE, "missing_fields:auth_token,data">>

-----------------------------------------------------------------------------
(* encode_message and decode_message *)

\* C17: for every valid request r, encode_message(r) is a frame whose last
\* byte is its only newline byte, and decode_message gives r back from it.
C17_RoundTrip ==
    pcall.fn = "encode_message" =>
        /\ ~pret.raised
        /\ pret.decoded = pcall.req
        /\ Len(pret.frame) > 0
        /\ \A i \in 1..Len(pret.frame) : (pret.frame[i] = LF) <=> (i = Len(pret.frame))

-----------------------------------------------------------------------------
(* Framing *)

\* C18: however the stream arrives in chunks, the lines dispatched are
\* newline-free segments; when the connection is being closed every complete
\* frame received has been dispatched; each dispatched frame has its one
\* response, in the order of the frames; and the rest of the buffer holds no
\* newline (sendall itself not failing).
C18_DispatchedAreSegments ==
    ~(last.n = 1 /\ last.iofault) =>
        /\ \A i \in 1..Len(done) : ~HasNewline(done[i])
        /\ spc = "closing" => ~HasNewline(buffer)
        /\ Len(out) = Len(done)
        /\ \A i \in 1..Len(out) :
              i <= Len(done) => out[i].task_id = TaskIdOrEmpty(decode_message(done[i]))

-----------------------------------------------------------------------------
(* One connection at a time *)

\* C19: whatever number of peers wait in the listen queue, at most one
\* connection is accepted and not yet closed; and a step that changes the
\* store or the file is the handling of the one frame at the head of that
\* connection's buffer, the store gaining that frame's entry.
C19_OneConnectionAtATime ==
    /\ [](/\ nopen <= 1
          /\ nopen = 1 <=> spc \in {"open", "closing"})
    /\ [][(memory' # memory \/ file' # file) =>
             /\ nopen = 1 /\ nopen' = 1
             /\ spc = "open" /\ HasNewline(buffer)
             /\ done' = Append(done, Line(buffer))
             /\ LET req == decode_message(Line(buffer)) IN
                memory' = MemoryPut(memory, req, handle_task(req.d.task_type, req.d.data))]_vars

\* two peers wait while a task of the open connection has been stored
C19_Witness ==
    /\ pending = 2
    /\ nopen = 1
    /\ last.n = 1
    /\ last.memChanged
    /\ HasNewline(buffer)

-----------------------------------------------------------------------------
(* The declared task_type *)

\* C20: a request object with all four fields, a non-empty str task_id and
\* valid data (both encodable) is, whatever its declared task_type, not
\* refused with invalid_task_type; with the right auth_token handle_task is
\* called for it; and it is answered, the connection staying open (sendall
\* itself not failing).
C20_DeclaredTypeIsExpected ==
    (/\ last.n = 1
     /\ last.req.type = "dict"
     /\ REQUIRED_FIELDS \subseteq DOMAIN last.req.d
     /\ IsStr(last.req.d.task_id)
     /\ last.req.d.task_id \notin {"", Surrogate}
     /\ IsStrDictList(last.req.d.data)
     /\ last.req.d.data # Surrogate
     /\ ~last.iofault) =>
        /\ \A i \in 1..Len(last.sent) : last.sent[i].error # "invalid_task_type"
        /\ last.req.d.auth_token = AUTH_TOKEN => last.handler # "none"
        /\ Len(last.sent) = 1
        /\ ~last.closed

-----------------------------------------------------------------------------
(* The shape of responses *)

\* C21 (the orchestrator's part): what route has returned has a status "ok"
\* or "error", a non-null error only with status "error", a non-null result
\* only with status "ok", and the task_id route was called with.
C21_RouteResponsesWellFormed ==
    (args.fn = "route" /\ opc = "returned") =>
        /\ Get(ret, "status") \in {"ok", "error"}
        /\ Get(ret, "error") # None => Get(ret, "status") = "error"
        /\ Get(ret, "result") # None => Get(ret, "status") = "ok"
        /\ Get(ret, "task_id") = args.task_id

-----------------------------------------------------------------------------
(* Retries and the handler *)

\* C22: during a route call, handle_task is not called for a request whose
\* task_id the agent has handled before in the call.
C22_HandledAtMostOnce ==
    (args.fn = "route" /\ last.n = 1) => ~last.again

=============================================================================
